---- MODULE Spec2Model ----
(***************************************************************************)
(* Model of the fastify-api package: createApp's conditional registration  *)
(* of the JWT and API-key authenticators, registerRoute's choice of a      *)
(* preHandler per auth type, the request lifecycle (validation,            *)
(* preHandler, handler, error handler) and the error handler's four rules. *)
(*                                                                         *)
(* The repository holds two copies of the route adapter and the API-key    *)
(* plugin: the TypeScript sources (src/src/routes/index.ts and the         *)
(* api-key part of src/src/plugins/auth/jwt.ts) and the compiled output    *)
(* (dist/plugins/auth/api-key.js and the routes module printed at the end  *)
(* of README.md).  The variable app.build says which copy is running.      *)
(***************************************************************************)
EXTENDS Integers, Sequences, FiniteSets, TLC

\* Bound: number of requests that are in flight at once under SpecConc.
MaxReq == 2

\* JavaScript's undefined, for string-valued fields.
Undefined == "undefined"

\* JavaScript's undefined, for object-valued fields (details, principals).
Undef == [undefined |-> TRUE]

AuthType == {"jwt", "apiKey", "any", "public"}

Builds == {"src", "dist"}

-----------------------------------------------------------------------------
(* Error taxonomy                                                          *)

ErrorCode ==
  {"BAD_REQUEST", "UNAUTHORIZED", "FORBIDDEN", "NOT_FOUND", "CONFLICT",
   "VALIDATION_ERROR", "RATE_LIMITED", "INTERNAL_ERROR",
   "SERVICE_UNAVAILABLE", "DATABASE_ERROR", "EXTERNAL_SERVICE_ERROR"}

ERROR_STATUS_MAP_DatabaseUnavailable ==
  [c \in ErrorCode |->
     CASE c = "BAD_REQUEST" -> 400
       [] c = "UNAUTHORIZED" -> 401
       [] c = "FORBIDDEN" -> 403
       [] c = "NOT_FOUND" -> 404
       [] c = "CONFLICT" -> 409
       [] c = "VALIDATION_ERROR" -> 422
       [] c = "RATE_LIMITED" -> 429
       [] c = "INTERNAL_ERROR" -> 500
       [] c = "SERVICE_UNAVAILABLE" -> 503
       [] c = "DATABASE_ERROR" -> 503
       [] c = "EXTERNAL_SERVICE_ERROR" -> 502]

\* The fixed code -> HTTP status table.
ERROR_STATUS_MAP ==
  [c \in ErrorCode |->
     CASE c = "BAD_REQUEST" -> 400
       [] c = "UNAUTHORIZED" -> 401
       [] c = "FORBIDDEN" -> 403
       [] c = "NOT_FOUND" -> 404
       [] c = "CONFLICT" -> 409
       [] c = "VALIDATION_ERROR" -> 422
       [] c = "RATE_LIMITED" -> 429
       [] c = "INTERNAL_ERROR" -> 500
       [] c = "SERVICE_UNAVAILABLE" -> 503
       [] c = "DATABASE_ERROR" -> 500
       [] c = "EXTERNAL_SERVICE_ERROR" -> 502]

\* No error (the value of request.error while nothing was raised).
NoError == [isApp |-> FALSE, name |-> "none"]

\* new AppError(code, message, {details, isOperational, cause})
AppError(code, message, details, isOperational, cause) ==
  [isApp |-> TRUE, name |-> "AppError", code |-> code,
   statusCode |-> ERROR_STATUS_MAP[code], message |-> message,
   details |-> details, isOperational |-> isOperational, cause |-> cause]

\* AppError.unauthorized(message = 'Authentication required')
Unauthorized(message) == AppError("UNAUTHORIZED", message, Undef, TRUE, Undefined)

\* AppError.validationError(message, details)
ValidationError(message, details) ==
  AppError("VALIDATION_ERROR", message, details, TRUE, Undefined)

InternalOperational(message, cause) ==
  AppError("INTERNAL_ERROR", message, Undef, TRUE, cause)

\* AppError.internal(message = 'Internal server error', cause)
Internal(message, cause) == AppError("INTERNAL_ERROR", message, Undef, FALSE, cause)

\* AppError.badRequest(message, details)
BadRequest(message, details) == AppError("BAD_REQUEST", message, details, TRUE, Undefined)

\* AppError.forbidden(message = 'Access denied')
Forbidden(message) == AppError("FORBIDDEN", message, Undef, TRUE, Undefined)

NotFoundAlwaysWithId(resource, id) ==
  AppError("NOT_FOUND",
           resource \o " with id '" \o id \o "' not found",
           [resource |-> resource, id |-> id],
           TRUE, Undefined)

\* AppError.notFound(resource, id): the message names the id when one is
\* given; details is {resource, id}, with id possibly undefined.
NotFound(resource, id) ==
  AppError("NOT_FOUND",
           IF id # Undefined /\ id # ""
           THEN resource \o " with id '" \o id \o "' not found"
           ELSE resource \o " not found",
           [resource |-> resource, id |-> id],
           TRUE, Undefined)

\* AppError.conflict(message, details)
Conflict(message, details) == AppError("CONFLICT", message, details, TRUE, Undefined)

\* AppError.rateLimited(retryAfter): details only for a truthy retryAfter.
RateLimited(retryAfter) ==
  AppError("RATE_LIMITED", "Too many requests",
           IF retryAfter # 0 THEN [retryAfter |-> retryAfter] ELSE Undef,
           TRUE, Undefined)

\* AppError.serviceUnavailable(message = 'Service temporarily unavailable')
ServiceUnavailable(message) ==
  AppError("SERVICE_UNAVAILABLE", message, Undef, TRUE, Undefined)

\* AppError.databaseError(message, cause)
DatabaseError(message, cause) == AppError("DATABASE_ERROR", message, Undef, FALSE, cause)

\* AppError.externalServiceError(service, message, cause)
ExternalServiceError(service, message, cause) ==
  AppError("EXTERNAL_SERVICE_ERROR", message, [service |-> service], TRUE, cause)

\* An error that is not an AppError.  statusKind says whether the object has
\* a statusCode property and whether typeof gives 'number'; issues is the
\* validator's issue list when hasIssues.
ForeignError(name, message, statusKind, statusCode, hasIssues, issues) ==
  [isApp |-> FALSE, name |-> name, message |-> message,
   statusKind |-> statusKind, statusCode |-> statusCode,
   hasIssues |-> hasIssues, issues |-> issues]

\* app.httpErrors.<name>(message) of @fastify/sensible: an HttpError with a
\* numeric statusCode.
HttpError(statusCode, message) ==
  ForeignError("HttpError", message, "number", statusCode, FALSE, <<>>)

\* A plain exception: new Error(message).
PlainError(message) == ForeignError("Error", message, "absent", 0, FALSE, <<>>)

\* JavaScript truthiness of a details value: undefined is falsy, every
\* object (the empty one included) is truthy.
Truthy(details) == details # Undef

ToJSONWithStack(e) ==
  [error |-> IF Truthy(e.details)
             THEN [code |-> e.code, message |-> e.message, details |-> e.details,
                   stack |-> e.cause]
             ELSE [code |-> e.code, message |-> e.message, stack |-> e.cause]]

ToJSONAlwaysDetails(e) ==
  [error |-> [code |-> e.code, message |-> e.message, details |-> e.details]]

\* AppError.prototype.toJSON
ToJSON(e) ==
  [error |-> IF Truthy(e.details)
             THEN [code |-> e.code, message |-> e.message, details |-> e.details]
             ELSE [code |-> e.code, message |-> e.message]]

isAppError(error) == error.isApp

\* The members of the modelled objects that hold a string or undefined.
StringKeys == {"code", "message", "resource", "id", "field", "service"}

\* The order in which toJSON writes the members of the error object.
MemberOrder == <<"code", "message", "details">>

\* JSON.stringify of a details object: members whose value is undefined
\* are not written.
StringifyDetails(details) ==
  LET written == {k \in DOMAIN details :
                    ~(k \in StringKeys /\ details[k] = Undefined)}
  IN [k \in written |-> details[k]]

StringifyNulls(body) ==
  LET e == body.error
      Written(k) == k \in DOMAIN e
      Member(k) ==
        [key |-> k,
         value |-> IF k = "details"
                   THEN [m \in DOMAIN e.details |->
                           IF m \in StringKeys /\ e.details[m] = Undefined
                           THEN "null" ELSE e.details[m]]
                   ELSE e[k]]
      keys == SelectSeq(MemberOrder, Written)
  IN [i \in 1..Len(keys) |-> Member(keys[i])]

\* JSON.stringify(body) as reply.send writes it: the JSON text of the
\* object under 'error', as the sequence of its members in the order they
\* are written.
Stringify(body) ==
  LET e == body.error
      Written(k) == k \in DOMAIN e
      Member(k) ==
        [key |-> k,
         value |-> IF k = "details" THEN StringifyDetails(e.details) ELSE e[k]]
      keys == SelectSeq(MemberOrder, Written)
  IN [i \in 1..Len(keys) |-> Member(keys[i])]

\* JSON.parse of such a text: the object with the members of the text.
Parse(text) ==
  LET keys == {text[i].key : i \in 1..Len(text)}
  IN [error |-> [k \in keys |->
                   (text[CHOOSE i \in 1..Len(text) : text[i].key = k]).value]]

StatusToCode ==
  [s \in {400, 401, 403, 404, 409, 422, 429, 502, 503} |->
     CASE s = 400 -> "BAD_REQUEST"
       [] s = 401 -> "UNAUTHORIZED"
       [] s = 403 -> "FORBIDDEN"
       [] s = 404 -> "NOT_FOUND"
       [] s = 409 -> "CONFLICT"
       [] s = 422 -> "VALIDATION_ERROR"
       [] s = 429 -> "RATE_LIMITED"
       [] s = 502 -> "EXTERNAL_SERVICE_ERROR"
       [] s = 503 -> "SERVICE_UNAVAILABLE"]

httpStatusToErrorCode(statusCode) ==
  IF statusCode \in DOMAIN StatusToCode
  THEN StatusToCode[statusCode]
  ELSE IF statusCode >= 500 THEN "INTERNAL_ERROR" ELSE "BAD_REQUEST"

\* issue.path.join('.'): the path segments joined by dots.
RECURSIVE JoinPath(_)
JoinPath(path) ==
  IF Len(path) = 0 THEN ""
  ELSE IF Len(path) = 1 THEN path[1]
  ELSE path[1] \o "." \o JoinPath(Tail(path))

MapIssuesReversed(issues) ==
  [i \in 1..Len(issues) |->
     [path |-> JoinPath(issues[Len(issues) + 1 - i].path),
      message |-> issues[Len(issues) + 1 - i].message]]

\* zodError.issues.map(issue => ({path: issue.path.join('.'), message}))
MapIssues(issues) ==
  [i \in 1..Len(issues) |->
     [path |-> JoinPath(issues[i].path), message |-> issues[i].message]]

LogEntry(level, msg) == [level |-> level, msg |-> msg]

\* Rule 1 of handleError: an AppError is logged and sent as it is.
AppErrorRule(error) ==
  [status |-> error.statusCode,
   body |-> ToJSON(error),
   log |-> <<LogEntry("error", "Application error")>>,
   appError |-> error]

HttpRuleMappedStatus(error) ==
  LET appError == AppError(httpStatusToErrorCode(error.statusCode), error.message,
                           Undef, TRUE, Undefined)
  IN [status |-> appError.statusCode,
      body |-> ToJSON(appError),
      log |-> <<LogEntry("error", "HTTP error")>>,
      appError |-> appError]

\* Rule 2 of handleError: an error with a numeric statusCode.
HttpRule(error) ==
  LET appError == AppError(httpStatusToErrorCode(error.statusCode), error.message,
                           Undef, TRUE, Undefined)
  IN [status |-> error.statusCode,
      body |-> ToJSON(appError),
      log |-> <<LogEntry("error", "HTTP error")>>,
      appError |-> appError]

\* Rule 3 of handleError: a ZodError with an issues list.
ZodRule(error) ==
  LET appError == ValidationError("Validation failed",
                                  [issues |-> MapIssues(error.issues)])
  IN [status |-> appError.statusCode,
      body |-> ToJSON(appError),
      log |-> <<>>,
      appError |-> appError]

UnknownRuleLeak(error) ==
  LET unknownError == Internal(error.message, error.message)
  IN [status |-> 500,
      body |-> ToJSON(unknownError),
      log |-> <<LogEntry("error", "Unhandled error")>>,
      appError |-> unknownError]

\* Rule 4 of handleError: any other exception.
UnknownRule(error) ==
  LET unknownError == Internal("An unexpected error occurred", error.message)
  IN [status |-> 500,
      body |-> ToJSON(unknownError),
      log |-> <<LogEntry("error", "Unhandled error")>>,
      appError |-> unknownError]

handleErrorZodFirst(error) ==
  IF isAppError(error) THEN AppErrorRule(error)
  ELSE IF error.name = "ZodError" /\ error.hasIssues THEN ZodRule(error)
  ELSE IF error.statusKind = "number" THEN HttpRule(error)
  ELSE UnknownRule(error)

\* handleError(error, request, reply): the status and body it sends, the
\* log entries it writes and the AppError whose toJSON is the body.
handleError(error) ==
  IF isAppError(error) THEN AppErrorRule(error)
  ELSE IF error.statusKind = "number" THEN HttpRule(error)
  ELSE IF error.name = "ZodError" /\ error.hasIssues THEN ZodRule(error)
  ELSE UnknownRule(error)

-----------------------------------------------------------------------------
(* Application construction and route registration                         *)

\* config.auth.apiKey.header values used by the tests.
HeaderNames == {"X-API-Key", "X-Custom-Key"}

\* String.prototype.toLowerCase on the header names above.
ToLowerCase(name) ==
  CASE name = "X-API-Key" -> "x-api-key"
    [] name = "X-Custom-Key" -> "x-custom-key"
    [] OTHER -> name

\* registerAuth: the decorators createApp installs for a configuration.
\* jwt: config.auth.jwt is set; apiKey: config.auth.apiKey.header or
\* Undefined when config.auth.apiKey is absent; validator: whether
\* options.apiKeyValidator was supplied.
registerAuth(jwt, apiKey, validator) ==
  [authenticateJWT |-> jwt,
   authenticateAPIKey |-> (apiKey # Undefined /\ validator),
   headerName |-> IF apiKey # Undefined THEN apiKey ELSE "X-API-Key"]

\* createApp(configInput, options): the app object after construction.
\* startupError records whether construction was rejected with a
\* configuration error; createApp has no such path.  phase is the server's
\* state (created, listening, closed), dbCloseCalls the number of calls of
\* db.close(), startFailed whether a call of start() was rejected.
createApp(build, jwt, apiKey, validator, db) ==
  [build |-> build,
   config |-> [auth |-> [jwt |-> jwt, apiKey |-> apiKey], db |-> db],
   apiKeyValidator |-> validator,
   decorators |-> registerAuth(jwt, apiKey, validator),
   startupError |-> FALSE,
   phase |-> "created", dbCloseCalls |-> 0, startFailed |-> FALSE]

resolveAuthPreHandlerJwtAny(a, auth) ==
  CASE auth = "jwt" ->
         IF a.decorators.authenticateJWT THEN "authenticateJWT" ELSE "any"
    [] auth = "apiKey" ->
         IF a.decorators.authenticateAPIKey THEN "authenticateAPIKey" ELSE "none"
    [] auth = "any" -> "any"
    [] OTHER -> "none"

resolveAuthPreHandlerPublicAny(a, auth) ==
  CASE auth = "jwt" ->
         IF a.decorators.authenticateJWT THEN "authenticateJWT" ELSE "none"
    [] auth = "apiKey" ->
         IF a.decorators.authenticateAPIKey THEN "authenticateAPIKey" ELSE "none"
    [] OTHER -> "any"

\* resolveAuthPreHandler / the switch of registerRoute: which preHandler a
\* route with this auth type gets on this app.
resolveAuthPreHandler(a, auth) ==
  CASE auth = "jwt" ->
         IF a.decorators.authenticateJWT THEN "authenticateJWT" ELSE "none"
    [] auth = "apiKey" ->
         IF a.decorators.authenticateAPIKey THEN "authenticateAPIKey" ELSE "none"
    [] auth = "any" -> "any"
    [] OTHER -> "none"

\* registerRoute for one route of every auth type: the route table.
registerRoute(a) == [auth \in AuthType |-> resolveAuthPreHandler(a, auth)]

-----------------------------------------------------------------------------
(* Requests                                                                *)

\* Authorization header values: absent, or "<scheme> <token>".
AuthorizationValues ==
  {Undef,
   [scheme |-> "Bearer", token |-> "good.token"],
   [scheme |-> "Bearer", token |-> "bad.token.here"],
   [scheme |-> "bearer", token |-> "good.token"],
   [scheme |-> "Basic", token |-> "dXNlcjpwYXNz"]}

\* authHeader?.startsWith('Bearer ')
StartsWithBearer(authHeader) ==
  authHeader # Undef /\ authHeader.scheme = "Bearer"

KeyHeaderNames == {"x-api-key", "x-custom-key"}

KeyValues == {Undefined, "", "valid-key-123", "unknown-key"}

\* The headers of a request, keyed by lower-cased name.
HeaderValues ==
  {[authorization |-> a, keys |-> k] :
     a \in AuthorizationValues, k \in [KeyHeaderNames -> KeyValues]}

\* The smaller set of headers used when several requests are in flight.
ConcHeader(a, v) ==
  [authorization |-> a,
   keys |-> [n \in KeyHeaderNames |-> IF n = "x-api-key" THEN v ELSE Undefined]]

ConcHeaderValues ==
  {ConcHeader([scheme |-> "Bearer", token |-> "good.token"], Undefined),
   ConcHeader([scheme |-> "Bearer", token |-> "other.good.token"], Undefined),
   ConcHeader([scheme |-> "Bearer", token |-> "bad.token.here"], "valid-key-123"),
   ConcHeader(Undef, "valid-key-123")}

\* The headers used when several API-key requests are in flight: every key
\* value under the default header, and one Bearer token.
KeysHeaderValues ==
  {ConcHeader(Undef, v) : v \in KeyValues}
    \cup {ConcHeader([scheme |-> "Bearer", token |-> "good.token"], Undefined)}

\* JavaScript truthiness of a header value.
TruthyStr(v) == v # Undefined /\ v # ""

\* The decoded claims request.jwtVerify() attaches for a token.
Claims(token) == [sub |-> "test-user-123", token |-> token]

\* The tokens the verifier accepts.
GoodTokens == {"good.token", "other.good.token"}

\* Outcomes request.jwtVerify() can have for an Authorization header:
\* a missing header, a scheme that is not Bearer and a bad token throw;
\* the verifier matches the scheme case-insensitively or not, depending on
\* its version (the tests accept both for 'bearer <token>').
JwtOutcomes(authHeader) ==
  IF authHeader = Undef THEN {"throws"}
  ELSE IF authHeader.token \notin GoodTokens THEN {"throws"}
  ELSE IF authHeader.scheme = "Bearer" THEN {"ok"}
  ELSE IF authHeader.scheme = "bearer" THEN {"ok", "throws"}
  ELSE {"throws"}

Null == [null |-> TRUE]

\* The application's apiKeyValidator of the tests: the record of a known
\* key, null for any other key.
Validate(key) ==
  IF key = "valid-key-123" THEN [id |-> "key-1", key |-> key] ELSE Null

\* Errors a collaborator or a handler can throw.
Statuses == {400, 401, 403, 404, 409, 418, 422, 429, 499, 500, 501, 502, 503, 504}

Issues1 == <<[path |-> <<"name">>, message |-> "Required"]>>

Issues3 ==
  <<[path |-> <<"items", "0", "name">>, message |-> "Expected string"],
    [path |-> <<"name">>, message |-> "Required"],
    [path |-> <<"user", "email">>, message |-> "Invalid email"]>>

Issues2 ==
  <<[path |-> <<"user", "email">>, message |-> "Invalid email"],
    [path |-> <<>>, message |-> "Unrecognized key"]>>

AppErrors ==
  {AppError(c, "Resource already exists", d, op, Undefined) :
     c \in ErrorCode, d \in {Undef, [resource |-> "User"]}, op \in BOOLEAN}

\* Errors made by the factory methods.
FactoryErrors ==
  {BadRequest("Invalid input", Undef),
   BadRequest("Invalid input", [field |-> "email"]),
   Unauthorized("Authentication required"),
   Forbidden("Access denied"),
   NotFound("Item", "1"),
   NotFound("Item", Undefined),
   Conflict("Resource already exists", Undef),
   ValidationError("Validation failed", [issues |-> <<>>]),
   RateLimited(30),
   RateLimited(0),
   Internal("Something went wrong", Undefined),
   ServiceUnavailable("Service temporarily unavailable"),
   DatabaseError("Query failed", "connection terminated"),
   ExternalServiceError("stripe", "Stripe is down", Undefined)}

HttpErrors == {HttpError(s, "I am an upstream error") : s \in Statuses}

ZodErrors ==
  {ForeignError("ZodError", "zod failed", "absent", 0, TRUE, i) : i \in {Issues1, Issues2, Issues3}}

OtherErrors ==
  {PlainError("connect ECONNREFUSED 10.0.0.5:5432"),
   PlainError("password=hunter2"),
   ForeignError("Error", "status is a string", "string", 0, FALSE, <<>>),
   ForeignError("ZodError", "zod with status", "number", 400, TRUE, Issues1),
   ForeignError("ZodError", "zod without issues", "absent", 0, FALSE, <<>>)}

HandlerErrors == AppErrors \cup FactoryErrors \cup HttpErrors \cup ZodErrors \cup OtherErrors

\* One error for each rule of the error handler.
RuleErrors ==
  {AppError("CONFLICT", "Resource already exists", [resource |-> "User"], TRUE, Undefined),
   HttpError(418, "I am an upstream error"),
   ForeignError("ZodError", "zod failed", "absent", 0, TRUE, Issues1),
   PlainError("password=hunter2")}

\* The error the framework raises when the request fails schema validation
\* (before the preHandler) and when the reply fails response serialization.
RequestValidationError ==
  ForeignError("Error", "params/id Invalid uuid", "number", 400, FALSE, <<>>)

ResponseSerializationError ==
  ForeignError("ResponseSerializationError", "Response does not match the schema",
               "number", 500, FALSE, <<>>)

\* What a validator that fails (rather than returning null) throws.
ValidatorFailure == PlainError("key store unreachable")

\* Outcomes of app.db.ping(): it resolves, or rejects with an Error, or
\* rejects with a value that is not an Error.
PingOutcomes ==
  {[kind |-> "ok", message |-> Undefined],
   [kind |-> "Error", message |-> "connection refused"],
   [kind |-> "Error", message |-> "down"],
   [kind |-> "other", message |-> "string-error"]}

NoPing == [kind |-> "none", message |-> Undefined]

\* The health endpoints registerHealthCheck adds.
HealthUrls == {"/health", "/health/live", "/health/ready"}

\* Arguments route handlers call AppError.notFound with.
Resources == {"Item", "User"}

Ids == {Undefined, "", "1", "123"}

Idle ==
  [pc |-> "idle", auth |-> "public",
   headers |-> [authorization |-> Undef, keys |-> [n \in KeyHeaderNames |-> Undefined]],
   user |-> Undef, apiKey |-> Undef, error |-> NoError, raisedBy |-> "none",
   dispatcher |-> "none", handler |-> "none", events |-> <<>>,
   jwtCalls |-> 0, validatorCalls |-> 0, responses |-> <<>>, log |-> <<>>,
   answered |-> NoError, payload |-> <<>>,
   url |-> "route", args |-> <<>>, pinged |-> NoPing]

VARIABLES app, routes, mode, req

vars == <<app, routes, mode, req>>

\* The request slots: one request at a time, except under SpecConc and
\* SpecKeys.
Slots == IF mode \in {"conc", "keys"} THEN 1..MaxReq ELSE {1}

Configs ==
  {createApp(b, j, k, v, d) :
     b \in Builds, j \in BOOLEAN, k \in HeaderNames \cup {Undefined},
     v \in BOOLEAN, d \in {FALSE}}

\* Authentication: one request at a time, every configuration, every
\* combination of route and headers, one handler error per rule of the
\* error handler.
Init ==
  /\ app \in Configs
  /\ routes = registerRoute(app)
  /\ mode = "auth"
  /\ req = [r \in Slots |-> Idle]

\* Error pipeline: an app with both authenticators, a few requests, every
\* error a handler can throw.
InitErr ==
  /\ app \in {createApp(b, TRUE, "X-API-Key", TRUE, FALSE) : b \in Builds}
  /\ routes = registerRoute(app)
  /\ mode = "errors"
  /\ req = [r \in Slots |-> Idle]

\* Concurrency: several requests in flight on an app with both
\* authenticators.
InitConc ==
  /\ app \in {createApp(b, TRUE, "X-API-Key", TRUE, FALSE) : b \in Builds}
  /\ routes = registerRoute(app)
  /\ mode = "conc"
  /\ req = [r \in Slots |-> Idle]

\* API keys: several requests in flight on routes with auth 'apiKey' and
\* 'jwt' of an app with both authenticators.
InitKeys ==
  /\ app \in {createApp(b, TRUE, "X-API-Key", TRUE, FALSE) : b \in Builds}
  /\ routes = registerRoute(app)
  /\ mode = "keys"
  /\ req = [r \in Slots |-> Idle]

\* Operations: the health endpoints, start and shutdown, with and without
\* a database.
InitOps ==
  /\ app \in {createApp(b, TRUE, "X-API-Key", TRUE, d) : b \in Builds, d \in BOOLEAN}
  /\ routes = registerRoute(app)
  /\ mode = "ops"
  /\ req = [r \in Slots |-> Idle]

-----------------------------------------------------------------------------
(* Request lifecycle                                                       *)

\* The error a rejection of the API-key plugin or of the 'any' preHandler
\* hands to the framework: the compiled copy throws AppError.unauthorized,
\* the TypeScript copy calls reply.send(app.httpErrors.unauthorized(..)).
RejectionError(message) ==
  IF app.build = "dist" THEN Unauthorized(message) ELSE HttpError(401, message)

\* A stage of request q raises err: the framework routes it to the error
\* handler and skips the remaining stages.
Raise(q, stage, err) ==
  [q EXCEPT !.pc = "errorHandler", !.error = err, !.raisedBy = stage]

RejectDispatchContinue(q, err) ==
  [q EXCEPT !.pc = "handler", !.error = err, !.raisedBy = "dispatcher",
            !.dispatcher = "rejected"]

RejectDispatch(q, err) ==
  [Raise(q, "dispatcher", err) EXCEPT !.dispatcher = "rejected"]

\* app.authenticateJWT up to its await: request.jwtVerify() is called.
authenticateJWT(q) ==
  [q EXCEPT !.pc = "jwtVerify", !.jwtCalls = @ + 1]

\* app.authenticateAPIKey up to its await: the key is read from the
\* configured header; a missing or empty key is rejected, otherwise
\* config.validate(apiKey) is called.
authenticateAPIKey(q) ==
  LET headerName == app.decorators.headerName
      apiKey == q.headers.keys[ToLowerCase(headerName)]
  IN IF ~TruthyStr(apiKey)
     THEN RejectDispatch(q, RejectionError("Missing " \o headerName \o " header"))
     ELSE [q EXCEPT !.pc = "validate", !.validatorCalls = @ + 1]

\* The name of the header the 'any' preHandler inspects: the compiled copy
\* uses (app.config.auth?.apiKey?.header ?? 'X-API-Key').toLowerCase(), the
\* TypeScript copy the literal 'x-api-key'.
AnyApiKeyHeaderName ==
  IF app.build = "dist"
  THEN ToLowerCase(IF app.config.auth.apiKey # Undefined
                   THEN app.config.auth.apiKey ELSE "X-API-Key")
  ELSE "x-api-key"

anyPreHandlerKeyFirst(q) ==
  LET authHeader == q.headers.authorization
      apiKeyHeader == q.headers.keys[AnyApiKeyHeaderName]
  IN IF TruthyStr(apiKeyHeader) /\ app.decorators.authenticateAPIKey
     THEN authenticateAPIKey(q)
     ELSE IF StartsWithBearer(authHeader) /\ app.decorators.authenticateJWT
     THEN authenticateJWT(q)
     ELSE RejectDispatch(q, RejectionError("Authentication required"))

\* The preHandler of an auth 'any' route.
anyPreHandler(q) ==
  LET authHeader == q.headers.authorization
      apiKeyHeader == q.headers.keys[AnyApiKeyHeaderName]
  IN IF StartsWithBearer(authHeader) /\ app.decorators.authenticateJWT
     THEN authenticateJWT(q)
     ELSE IF TruthyStr(apiKeyHeader) /\ app.decorators.authenticateAPIKey
     THEN authenticateAPIKey(q)
     ELSE RejectDispatch(q, RejectionError("Authentication required"))

\* The inputs a new request is drawn from.
RouteInputs ==
  CASE mode = "auth" -> AuthType
    [] mode = "errors" -> {"any", "jwt"}
    [] mode = "keys" -> {"apiKey", "jwt"}
    [] OTHER -> {"any"}

\* Outcomes of the framework's validation and serialization that are
\* explored: both, except with several requests in flight.
FrameworkOutcomes == IF mode \in {"conc", "keys", "ops"} THEN {TRUE} ELSE BOOLEAN

HeaderInputs ==
  CASE mode = "auth" -> HeaderValues
    [] mode = "keys" -> KeysHeaderValues
    [] OTHER -> ConcHeaderValues

HandlerErrorInputs ==
  CASE mode = "errors" -> HandlerErrors
    [] mode = "auth" -> RuleErrors
    [] OTHER -> {AppError("CONFLICT", "Resource already exists", Undef, TRUE, Undefined)}

\* A request arrives on the route with auth type auth; the framework
\* validates it against the route's schemas, then either raises the
\* validation error, or runs the preHandler, or (no preHandler) the handler.
Receive(r, auth, headers, valid) ==
  /\ req[r].pc = "idle"
  /\ app.phase # "closed"
  /\ LET q == [Idle EXCEPT !.auth = auth, !.headers = headers,
                           !.events = <<"validation">>]
     IN req' = [req EXCEPT ![r] =
                  IF ~valid THEN Raise(q, "validation", RequestValidationError)
                  ELSE IF routes[auth] = "none" THEN [q EXCEPT !.pc = "handler"]
                  ELSE [q EXCEPT !.pc = "preHandler"]]
  /\ UNCHANGED <<app, routes, mode>>

\* The route's preHandler runs up to its first await.
PreHandler(r) ==
  /\ req[r].pc = "preHandler"
  /\ LET q == [req[r] EXCEPT !.events = Append(@, "dispatcher"),
                             !.dispatcher = "pending"]
     IN req' = [req EXCEPT ![r] =
                  CASE routes[q.auth] = "authenticateJWT" -> authenticateJWT(q)
                    [] routes[q.auth] = "authenticateAPIKey" -> authenticateAPIKey(q)
                    [] OTHER -> anyPreHandler(q)]
  /\ UNCHANGED <<app, routes, mode>>

JwtVerifyReturnFallback(r, outcome) ==
  /\ req[r].pc = "jwtVerify"
  /\ outcome \in JwtOutcomes(req[r].headers.authorization)
  /\ LET q == req[r]
     IN req' = [req EXCEPT ![r] =
                  IF outcome = "ok"
                  THEN [q EXCEPT !.pc = "handler", !.dispatcher = "ok",
                                 !.user = Claims(q.headers.authorization.token)]
                  ELSE IF q.auth = "any" /\ app.decorators.authenticateAPIKey
                          /\ TruthyStr(q.headers.keys[AnyApiKeyHeaderName])
                  THEN authenticateAPIKey(q)
                  ELSE RejectDispatch(q, Unauthorized("Invalid or expired token"))]
  /\ UNCHANGED <<app, routes, mode>>

JwtVerifyReturnSwallow(r, outcome) ==
  /\ req[r].pc = "jwtVerify"
  /\ outcome \in JwtOutcomes(req[r].headers.authorization)
  /\ LET q == req[r]
     IN req' = [req EXCEPT ![r] =
                  IF outcome = "ok"
                  THEN [q EXCEPT !.pc = "handler", !.dispatcher = "ok",
                                 !.user = Claims(q.headers.authorization.token)]
                  ELSE [q EXCEPT !.pc = "handler", !.dispatcher = "ok"]]
  /\ UNCHANGED <<app, routes, mode>>

JwtVerifyReturnShared(r, outcome) ==
  /\ req[r].pc = "jwtVerify"
  /\ outcome \in JwtOutcomes(req[r].headers.authorization)
  /\ LET q == req[r]
     IN req' = IF outcome = "ok"
               THEN [s \in Slots |->
                       IF s = r
                       THEN [q EXCEPT !.pc = "handler", !.dispatcher = "ok",
                                      !.user = Claims(q.headers.authorization.token)]
                       ELSE IF req[s].pc = "idle" THEN req[s]
                       ELSE [req[s] EXCEPT !.user = Claims(q.headers.authorization.token)]]
               ELSE [req EXCEPT ![r] =
                       RejectDispatch(q, Unauthorized("Invalid or expired token"))]
  /\ UNCHANGED <<app, routes, mode>>

\* request.jwtVerify() settles: on success the claims are attached to the
\* request, on failure authenticateJWT throws AppError.unauthorized.
JwtVerifyReturn(r, outcome) ==
  /\ req[r].pc = "jwtVerify"
  /\ outcome \in JwtOutcomes(req[r].headers.authorization)
  /\ LET q == req[r]
     IN req' = [req EXCEPT ![r] =
                  IF outcome = "ok"
                  THEN [q EXCEPT !.pc = "handler", !.dispatcher = "ok",
                                 !.user = Claims(q.headers.authorization.token)]
                  ELSE RejectDispatch(q, Unauthorized("Invalid or expired token"))]
  /\ UNCHANGED <<app, routes, mode>>

\* config.validate(apiKey) settles with a record or null, or throws.
ValidateReturn(r, throws) ==
  /\ req[r].pc = "validate"
  /\ LET q == req[r]
         keyInfo == Validate(q.headers.keys[ToLowerCase(app.decorators.headerName)])
     IN req' = [req EXCEPT ![r] =
                  IF throws THEN RejectDispatch(q, ValidatorFailure)
                  ELSE IF keyInfo = Null
                  THEN RejectDispatch(q, RejectionError("Invalid API key"))
                  ELSE [q EXCEPT !.pc = "handler", !.dispatcher = "ok",
                                 !.apiKey = keyInfo]]
  /\ UNCHANGED <<app, routes, mode>>

OkResponse == [status |-> 200, body |-> [ok |-> TRUE]]

\* route.handler returns and the reply is serialized and sent, or the
\* serializer rejects the returned value.
HandlerReturn(r, serializes) ==
  /\ req[r].pc = "handler"
  /\ LET q == [req[r] EXCEPT !.events = Append(@, "handler"), !.handler = "ok"]
     IN req' = [req EXCEPT ![r] =
                  IF serializes
                  THEN [q EXCEPT !.pc = "sent", !.responses = Append(@, OkResponse)]
                  ELSE Raise(q, "serialization", ResponseSerializationError)]
  /\ UNCHANGED <<app, routes, mode>>

\* route.handler throws.
HandlerThrow(r, err) ==
  /\ req[r].pc = "handler"
  /\ LET q == [req[r] EXCEPT !.events = Append(@, "handler"), !.handler = "threw"]
     IN req' = [req EXCEPT ![r] = Raise(q, "handler", err)]
  /\ UNCHANGED <<app, routes, mode>>

ErrorHandlerLastError(r) ==
  /\ req[r].pc = "errorHandler"
  /\ LET last == IF req[1].error # NoError THEN req[1].error ELSE req[r].error
         out == handleError(last)
     IN req' = [req EXCEPT ![r] =
                  [req[r] EXCEPT !.pc = "sent",
                                 !.events = Append(@, "errorHandler"),
                                 !.log = @ \o out.log,
                                 !.answered = out.appError,
                                 !.payload = Stringify(out.body),
                                 !.responses = Append(@, [status |-> out.status,
                                                           body |-> out.body])]]
  /\ UNCHANGED <<app, routes, mode>>

\* The application error handler answers the raised error.
ErrorHandler(r) ==
  /\ req[r].pc = "errorHandler"
  /\ LET out == handleError(req[r].error)
     IN req' = [req EXCEPT ![r] =
                  [req[r] EXCEPT !.pc = "sent",
                                 !.events = Append(@, "errorHandler"),
                                 !.log = @ \o out.log,
                                 !.answered = out.appError,
                                 !.payload = Stringify(out.body),
                                 !.responses = Append(@, [status |-> out.status,
                                                           body |-> out.body])]]
  /\ UNCHANGED <<app, routes, mode>>

\* The request is over; its slot serves the next request.
Finish(r) ==
  /\ req[r].pc = "sent"
  /\ req' = [req EXCEPT ![r] = Idle]
  /\ UNCHANGED <<app, routes, mode>>

Next ==
  \E r \in Slots :
    \/ \E auth \in RouteInputs, headers \in HeaderInputs, valid \in FrameworkOutcomes :
         Receive(r, auth, headers, valid)
    \/ PreHandler(r)
    \/ \E outcome \in {"ok", "throws"} : JwtVerifyReturn(r, outcome)
    \/ \E throws \in BOOLEAN : ValidateReturn(r, throws)
    \/ \E serializes \in FrameworkOutcomes : HandlerReturn(r, serializes)
    \/ \E err \in HandlerErrorInputs : HandlerThrow(r, err)
    \/ ErrorHandler(r)
    \/ Finish(r)

Spec == Init /\ [][Next]_vars

SpecErr == InitErr /\ [][Next]_vars

SpecConc == InitConc /\ [][Next]_vars

SpecKeys == InitKeys /\ [][Next]_vars

-----------------------------------------------------------------------------
(* Health endpoints, start and shutdown                                    *)

\* The part of the GET /health body that does not depend on the clock:
\* the per-dependency checks and the aggregate status.
HealthBody(checks) ==
  LET hasUnhealthy == \E k \in DOMAIN checks : checks[k].status = "unhealthy"
  IN [status |-> IF hasUnhealthy THEN "unhealthy" ELSE "healthy",
      checks |-> checks]

\* checks.database after the ping settled (latencyMs is a clock value).
DatabaseCheck(outcome) ==
  IF outcome.kind = "ok" THEN [status |-> "healthy", latencyMs |-> "number"]
  ELSE [status |-> "unhealthy",
        error |-> IF outcome.kind = "Error" THEN outcome.message ELSE "Unknown error"]

NoChecks == [k \in {} |-> [status |-> "healthy"]]

ReadyResponseIgnoresPing(outcome) == [status |-> 200, body |-> [status |-> "ready"]]

\* The reply of GET /health/ready once the ping settled (a ping that was
\* not made counts as one that resolved).
ReadyResponse(outcome) ==
  IF outcome.kind \in {"Error", "other"}
  THEN [status |-> 503,
        body |-> [status |-> "not ready", reason |-> "database unavailable"]]
  ELSE [status |-> 200, body |-> [status |-> "ready"]]

\* A request arrives on a health endpoint: the handler answers at once
\* when there is nothing to ping, and calls app.db.ping() otherwise.
HealthRequest(r, url) ==
  /\ req[r].pc = "idle"
  /\ app.phase # "closed"
  /\ LET q == [Idle EXCEPT !.url = url, !.events = <<"validation", "handler">>,
                           !.handler = "ok"]
         Reply(response) == [q EXCEPT !.pc = "sent", !.responses = <<response>>]
     IN req' = [req EXCEPT ![r] =
                  IF url = "/health/live"
                  THEN Reply([status |-> 200, body |-> [status |-> "ok"]])
                  ELSE IF app.config.db THEN [q EXCEPT !.pc = "ping"]
                  ELSE IF url = "/health/ready" THEN Reply(ReadyResponse(NoPing))
                  ELSE Reply([status |-> 200, body |-> HealthBody(NoChecks)])]
  /\ UNCHANGED <<app, routes, mode>>

PingReturnPropagates(r, outcome) ==
  /\ req[r].pc = "ping"
  /\ LET q == [req[r] EXCEPT !.pinged = outcome]
     IN req' = [req EXCEPT ![r] =
                  IF outcome.kind # "ok"
                  THEN Raise(q, "handler", PlainError(outcome.message))
                  ELSE IF q.url = "/health/ready"
                  THEN [q EXCEPT !.pc = "sent", !.responses = <<ReadyResponse(outcome)>>]
                  ELSE [q EXCEPT !.pc = "sent",
                                 !.responses =
                                   <<[status |-> 200,
                                      body |-> HealthBody([k \in {"database"} |->
                                                             DatabaseCheck(outcome)])]>>]]
  /\ UNCHANGED <<app, routes, mode>>

\* app.db.ping() settles inside a health handler, which catches a
\* rejection and replies.
PingReturn(r, outcome) ==
  /\ req[r].pc = "ping"
  /\ LET q == [req[r] EXCEPT !.pinged = outcome]
     IN req' = [req EXCEPT ![r] =
                  IF q.url = "/health/ready"
                  THEN [q EXCEPT !.pc = "sent", !.responses = <<ReadyResponse(outcome)>>]
                  ELSE [q EXCEPT !.pc = "sent",
                                 !.responses =
                                   <<[status |-> 200,
                                      body |-> HealthBody([k \in {"database"} |->
                                                             DatabaseCheck(outcome)])]>>]]
  /\ UNCHANGED <<app, routes, mode>>

\* A route handler throws AppError.notFound(resource, id).
HandlerThrowNotFound(r, resource, id) ==
  /\ req[r].pc = "handler"
  /\ LET q == [req[r] EXCEPT !.events = Append(@, "handler"), !.handler = "threw",
                             !.args = <<resource, id>>]
     IN req' = [req EXCEPT ![r] = Raise(q, "handler", NotFound(resource, id))]
  /\ UNCHANGED <<app, routes, mode>>

StartClosesOnFailure(listens) ==
  /\ app' = IF listens /\ app.phase = "created"
            THEN [app EXCEPT !.phase = "listening"]
            ELSE [app EXCEPT !.startFailed = TRUE,
                             !.dbCloseCalls = IF app.config.db THEN @ + 1 ELSE @]
  /\ app' # app
  /\ UNCHANGED <<routes, mode, req>>

\* app.start(): fastify.listen succeeds, or its error is logged and thrown
\* again.
Start(listens) ==
  /\ app' = IF listens /\ app.phase = "created"
            THEN [app EXCEPT !.phase = "listening"]
            ELSE [app EXCEPT !.startFailed = TRUE]
  /\ app' # app
  /\ UNCHANGED <<routes, mode, req>>

\* app.shutdown() / app.close(): the onClose hooks run, once; the hook
\* setupDatabase added calls db.close().
Shutdown ==
  /\ app.phase # "closed"
  /\ app' = [app EXCEPT !.phase = "closed",
                        !.dbCloseCalls = IF app.config.db THEN @ + 1 ELSE @]
  /\ UNCHANGED <<routes, mode, req>>

NextOps ==
  \/ Next
  \/ \E r \in Slots :
       \/ \E url \in HealthUrls : HealthRequest(r, url)
       \/ \E outcome \in PingOutcomes : PingReturn(r, outcome)
       \/ \E resource \in Resources, id \in Ids : HandlerThrowNotFound(r, resource, id)
  \/ \E listens \in BOOLEAN : Start(listens)
  \/ Shutdown

SpecOps == InitOps /\ [][NextOps]_vars

-----------------------------------------------------------------------------
(* Properties                                                              *)

\* The request passed the framework's validation and reached its route.
Reached(q) == q.pc # "idle" /\ q.raisedBy # "validation"

\* The lower-cased name of the configured API-key header
\* (config.auth.apiKey.header, default 'X-API-Key').
ConfiguredKeyHeader ==
  ToLowerCase(IF app.config.auth.apiKey # Undefined
              THEN app.config.auth.apiKey ELSE "X-API-Key")

\* The API key the request carries in the configured header.
KeyOf(q) == q.headers.keys[ConfiguredKeyHeader]

BothAuthenticators ==
  app.decorators.authenticateJWT /\ app.decorators.authenticateAPIKey

BadBearer(q) ==
  StartsWithBearer(q.headers.authorization)
  /\ q.headers.authorization.token \notin GoodTokens

GoodBearer(q) ==
  StartsWithBearer(q.headers.authorization)
  /\ q.headers.authorization.token \in GoodTokens

\* The response of a finished request.
Response(q) == q.responses[1]

\* C1: on an 'any' route of an app with both authenticators, a request with
\* a Bearer header whose token fails verification is answered 401 even with
\* a valid API key: the validator is never called, request.apiKey stays
\* unset and the handler does not run.
C1_NoFallbackToApiKey ==
  \A r \in Slots :
    LET q == req[r]
    IN (Reached(q) /\ q.auth = "any" /\ BothAuthenticators /\ BadBearer(q))
       => /\ q.validatorCalls = 0
          /\ q.apiKey = Undef
          /\ q.handler = "none"
          /\ q.pc # "handler"
          /\ (q.pc = "sent" => /\ Len(q.responses) = 1
                               /\ Response(q).status = 401)

C1_Witness ==
  \E r \in Slots :
    LET q == req[r]
    IN /\ q.pc = "sent" /\ q.auth = "any" /\ BothAuthenticators /\ BadBearer(q)
       /\ KeyOf(q) = "valid-key-123"
       /\ q.headers.keys["x-api-key"] = "valid-key-123"
       /\ Response(q).status = 401

\* C2: when no apiKeyValidator was supplied, a route with auth 'apiKey' or
\* 'any' never runs its handler for a request that passed no credential
\* check (construction would have failed with a configuration error).
C2_NeverServedUnchecked ==
  \A r \in Slots :
    LET q == req[r]
    IN (~app.apiKeyValidator /\ q.auth \in {"apiKey", "any"} /\ q.handler # "none")
       => (app.startupError \/ q.dispatcher = "ok")

\* C3: whenever the dispatcher rejects a request, the error that leaves it
\* is an AppError with code UNAUTHORIZED.
C3_OnlyUnauthorizedLeaves ==
  \A r \in Slots :
    LET q == req[r]
    IN q.raisedBy = "dispatcher"
       => (q.error.isApp /\ q.error.code = "UNAUTHORIZED")

\* C4: on an 'any' route, a request with neither a 'Bearer ' Authorization
\* header nor a non-empty API-key header is answered 401, UNAUTHORIZED,
\* 'Authentication required', and neither verifier is called.
C4_NoCredentials ==
  \A r \in Slots :
    LET q == req[r]
    IN (Reached(q) /\ q.auth = "any"
        /\ ~StartsWithBearer(q.headers.authorization) /\ ~TruthyStr(KeyOf(q)))
       => /\ q.jwtCalls = 0
          /\ q.validatorCalls = 0
          /\ q.handler = "none"
          /\ (q.pc = "sent" =>
                /\ Response(q).status = 401
                /\ Response(q).body.error.code = "UNAUTHORIZED"
                /\ Response(q).body.error.message = "Authentication required")

\* C5: on an 'any' route, a request with no Bearer header and an API key
\* the validator knows is authenticated by the key: the dispatcher does not
\* reject it unless the validator throws, the handler runs with
\* request.apiKey equal to the validator's record, and no claims are attached.
C5_ApiKeyAuthenticates ==
  \A r \in Slots :
    LET q == req[r]
    IN (Reached(q) /\ q.auth = "any" /\ app.decorators.authenticateAPIKey
        /\ ~StartsWithBearer(q.headers.authorization)
        /\ Validate(KeyOf(q)) # Null)
       => /\ q.user = Undef
          /\ q.jwtCalls = 0
          /\ (q.dispatcher = "rejected" => q.error = ValidatorFailure)
          /\ (q.handler # "none" => q.apiKey = Validate(KeyOf(q)))

\* C6: on an 'any' route of an app with the JWT authenticator, a request
\* with a valid Bearer token and a valid API key is authenticated by the
\* token only: the claims are attached, the validator is not called and
\* request.apiKey stays unset.
C6_JwtWins ==
  \A r \in Slots :
    LET q == req[r]
    IN (Reached(q) /\ q.auth = "any" /\ app.decorators.authenticateJWT
        /\ GoodBearer(q) /\ Validate(KeyOf(q)) # Null)
       => /\ q.validatorCalls = 0
          /\ q.apiKey = Undef
          /\ q.dispatcher # "rejected"
          /\ (q.dispatcher = "ok" =>
                q.user = Claims(q.headers.authorization.token))
          /\ (q.pc \in {"handler", "sent"} => q.dispatcher = "ok")

C6_Witness ==
  \E r \in Slots :
    LET q == req[r]
    IN /\ q.pc = "sent" /\ q.auth = "any" /\ BothAuthenticators
       /\ GoodBearer(q) /\ KeyOf(q) = "valid-key-123"
       /\ q.handler = "ok" /\ q.user = Claims("good.token")
       /\ Response(q).status = 200

\* The place of a lifecycle event in the order the claim C7 states.
Rank(e) ==
  CASE e = "validation" -> 1
    [] e = "dispatcher" -> 2
    [] e = "handler" -> 3
    [] OTHER -> 4

InOrder(q) ==
  \A i, j \in DOMAIN q.events : i < j => Rank(q.events[i]) < Rank(q.events[j])

Ran(q, e) == \E i \in DOMAIN q.events : q.events[i] = e

\* The first two parts of C7: the events of a request happen in the order
\* dispatcher, handler, error handler; on a route with a preHandler the
\* handler starts only after the dispatcher succeeded, and never for a
\* request the dispatcher rejected.
DispatcherBeforeHandler(q) ==
  /\ InOrder(q)
  /\ ((q.pc = "handler" \/ Ran(q, "handler"))
        => (routes[q.auth] = "none" \/ (Ran(q, "dispatcher") /\ q.dispatcher = "ok")))
  /\ (q.dispatcher \in {"pending", "rejected"} => (q.pc # "handler" /\ ~Ran(q, "handler")))

\* C7 as stated: ... and the error handler runs for a request only if the
\* dispatcher or the handler raised an error for that request.
C7_OnlyDispatcherOrHandlerRaise ==
  \A r \in Slots :
    LET q == req[r]
    IN /\ DispatcherBeforeHandler(q)
       /\ ((q.pc = "errorHandler" \/ Ran(q, "errorHandler"))
             => q.raisedBy \in {"dispatcher", "handler"})

\* C7 as amended: ... and the error handler runs for a request only if a
\* stage of that request raised an error: request validation, the
\* dispatcher, the handler or response serialization; it runs once, after
\* the handler if the handler ran.
C7_LifecycleOrder ==
  \A r \in Slots :
    LET q == req[r]
    IN /\ DispatcherBeforeHandler(q)
       /\ ((q.pc = "errorHandler" \/ Ran(q, "errorHandler"))
             => /\ q.raisedBy \in {"validation", "dispatcher", "handler", "serialization"}
                /\ q.error # NoError
                /\ (q.raisedBy = "validation" => ~Ran(q, "dispatcher") /\ ~Ran(q, "handler"))
                /\ (q.raisedBy = "dispatcher" => q.dispatcher = "rejected")
                /\ (q.raisedBy = "handler" => q.handler = "threw")
                /\ (q.raisedBy = "serialization" => q.handler = "ok"))
       /\ (q.raisedBy = "none" => q.pc # "errorHandler" /\ ~Ran(q, "errorHandler"))

C7_Witness ==
  \E r \in Slots :
    LET q == req[r]
    IN /\ q.pc = "sent"
       /\ q.events = <<"validation", "dispatcher", "handler", "errorHandler">>
       /\ q.dispatcher = "ok" /\ q.raisedBy = "handler"

\* The principal attached to a request is the one its own credentials
\* resolve to.
OwnPrincipal(q) ==
  /\ (q.user # Undef =>
        /\ q.dispatcher = "ok" /\ q.jwtCalls = 1
        /\ q.headers.authorization # Undef
        /\ q.headers.authorization.token \in GoodTokens
        /\ q.user = Claims(q.headers.authorization.token))
  /\ (q.apiKey # Undef =>
        /\ q.dispatcher = "ok" /\ q.validatorCalls = 1
        /\ q.apiKey # Null
        /\ q.apiKey = Validate(KeyOf(q)))
  /\ (q.dispatcher # "ok" => (q.user = Undef /\ q.apiKey = Undef))

\* C8: with requests interleaved at the verifier's and the validator's
\* awaits, the principal attached to a request is the one resolved from its
\* own credentials, and a request whose verification failed or is pending
\* has no principal.
C8_RequestScopedPrincipal == \A r \in Slots : OwnPrincipal(req[r])

C8_Witness ==
  \E r1, r2 \in Slots :
    /\ r1 # r2
    /\ req[r1].pc = "handler" /\ req[r1].user = Claims("good.token")
    /\ req[r2].pc = "jwtVerify" /\ req[r2].user = Undef
    /\ req[r2].headers.authorization.token = "other.good.token"

\* The error handler's rule 3 applies to the error.
IsSchemaValidationError(e) ==
  ~e.isApp /\ e.statusKind # "number" /\ e.name = "ZodError" /\ e.hasIssues

\* The AppError that is answered (the original one or the one the error
\* handler synthesizes) has details defined.
AnsweredWithDetails(e) ==
  \/ (e.isApp /\ e.details # Undef)
  \/ IsSchemaValidationError(e)

ExpectedCode(s) ==
  CASE s = 400 -> "BAD_REQUEST"
    [] s = 401 -> "UNAUTHORIZED"
    [] s = 403 -> "FORBIDDEN"
    [] s = 404 -> "NOT_FOUND"
    [] s = 409 -> "CONFLICT"
    [] s = 422 -> "VALIDATION_ERROR"
    [] s = 429 -> "RATE_LIMITED"
    [] s = 502 -> "EXTERNAL_SERVICE_ERROR"
    [] s = 503 -> "SERVICE_UNAVAILABLE"
    [] s \notin {400, 401, 403, 404, 409, 422, 429, 502, 503} /\ s >= 500 -> "INTERNAL_ERROR"
    [] OTHER -> "BAD_REQUEST"

DotJoined(path) ==
  CASE path = <<>> -> ""
    [] path = <<"name">> -> "name"
    [] path = <<"user", "email">> -> "user.email"
    [] path = <<"items", "0", "name">> -> "items.0.name"

\* The error has the name 'ZodError' and an issues list.
IsZodError(e) == ~e.isApp /\ e.name = "ZodError" /\ e.hasIssues

\* The response to request q is the validation answer for q's error.
AnsweredAsValidationError(q) ==
  /\ Response(q).status = 422
  /\ Response(q).body.error.code = "VALIDATION_ERROR"
  /\ Response(q).body.error.message = "Validation failed"
  /\ "details" \in DOMAIN Response(q).body.error
  /\ LET issues == Response(q).body.error.details.issues
     IN /\ Len(issues) = Len(q.error.issues)
        /\ \A i \in 1..Len(issues) :
             /\ issues[i].path = DotJoined(q.error.issues[i].path)
             /\ issues[i].message = q.error.issues[i].message

\* C11 as stated: every error named 'ZodError' with an issues list that
\* reaches the error handler is answered 422, VALIDATION_ERROR, 'Validation
\* failed', with details.issues listing, in order, the dot-joined path and
\* the message of each of the validator's issues.
C11_EveryZodErrorIs422 ==
  \A r \in Slots :
    LET q == req[r]
    IN (q.pc = "sent" /\ Ran(q, "errorHandler") /\ IsZodError(q.error))
       => AnsweredAsValidationError(q)

\* C11 as amended: the same answer for every error named 'ZodError' with an
\* issues list and no numeric statusCode; a ZodError that carries a numeric
\* statusCode is answered by the HTTP-error rule with that status.
C11_ZodErrorWithoutStatusIs422 ==
  \A r \in Slots :
    LET q == req[r]
    IN (q.pc = "sent" /\ Ran(q, "errorHandler") /\ IsZodError(q.error))
       => IF q.error.statusKind = "number"
          THEN /\ Response(q).status = q.error.statusCode
               /\ Response(q).body.error.message = q.error.message
               /\ "details" \notin DOMAIN Response(q).body.error
          ELSE AnsweredAsValidationError(q)

C11_Witness ==
  \E r \in Slots :
    LET q == req[r]
    IN /\ q.pc = "sent" /\ q.raisedBy = "handler"
       /\ IsZodError(q.error) /\ q.error.statusKind = "absent"
       /\ Len(q.error.issues) = 3
       /\ Response(q).status = 422
       /\ Response(q).body.error.details.issues[1].path = "items.0.name"
       /\ Response(q).body.error.details.issues[3].message = "Invalid email"

\* The error is an unanticipated exception: not an AppError, no numeric
\* statusCode, not a ZodError.
Unanticipated(e) ==
  ~e.isApp /\ e.name \notin {"none", "ZodError"} /\ e.statusKind # "number"

\* The only answer to an unanticipated exception.
GenericAnswer ==
  [status |-> 500,
   body |-> [error |-> [code |-> "INTERNAL_ERROR",
                        message |-> "An unexpected error occurred"]]]

\* C12: every unanticipated exception is answered with the same response,
\* whatever its message, stack or cause: 500, INTERNAL_ERROR, 'An unexpected
\* error occurred', no details; the exception's message is not in the body.
C12_UnanticipatedAnswerIsConstant ==
  \A r \in Slots :
    LET q == req[r]
    IN (q.pc = "sent" /\ Ran(q, "errorHandler") /\ Unanticipated(q.error))
       => /\ q.responses = <<GenericAnswer>>
          /\ Response(q).body.error.message # q.error.message

C12_Witness ==
  \E r \in Slots :
    LET q == req[r]
    IN /\ q.pc = "sent" /\ q.raisedBy = "handler"
       /\ Unanticipated(q.error) /\ q.error.message = "password=hunter2"
       /\ Response(q) = GenericAnswer
       /\ q.log = <<LogEntry("error", "Unhandled error")>>

\* The response to q is an error-handler response with code INTERNAL_ERROR.
InternalAnswer(q) ==
  /\ q.pc = "sent" /\ Ran(q, "errorHandler")
  /\ Response(q).body.error.code = "INTERNAL_ERROR"

\* C13 as stated: no error-handler response with code INTERNAL_ERROR carries
\* the message of the error that triggered it, whichever rule produced it.
C13_InternalAnswerHidesMessage ==
  \A r \in Slots :
    LET q == req[r]
    IN InternalAnswer(q)
       => /\ Response(q).body.error.message # q.error.message
          /\ DOMAIN Response(q).body.error \subseteq {"code", "message", "details"}

\* C13 as amended: an error-handler response with code INTERNAL_ERROR never
\* carries a stack or a cause; it carries the generic message, not the
\* error's own, when the error was an unanticipated exception, and the
\* error's own message when the error was an AppError with code
\* INTERNAL_ERROR or a foreign error with a numeric statusCode.
C13_InternalAnswerHidesUnanticipated ==
  \A r \in Slots :
    LET q == req[r]
    IN InternalAnswer(q)
       => /\ DOMAIN Response(q).body.error \subseteq {"code", "message", "details"}
          /\ IF q.error.isApp \/ q.error.statusKind = "number"
             THEN Response(q).body.error.message = q.error.message
             ELSE /\ Response(q).body.error.message = "An unexpected error occurred"
                  /\ Response(q).body.error.message # q.error.message
                  /\ "details" \notin DOMAIN Response(q).body.error

C13_Witness ==
  \E r \in Slots :
    LET q == req[r]
    IN /\ InternalAnswer(q) /\ q.raisedBy = "handler"
       /\ q.error = Internal("Something went wrong", Undefined)
       /\ Response(q).status = 500
       /\ Response(q).body.error.message = "Something went wrong"

\* The code to status table of claim C14.
ExpectedStatus(c) ==
  CASE c = "BAD_REQUEST" -> 400
    [] c = "UNAUTHORIZED" -> 401
    [] c = "FORBIDDEN" -> 403
    [] c = "NOT_FOUND" -> 404
    [] c = "CONFLICT" -> 409
    [] c = "VALIDATION_ERROR" -> 422
    [] c = "RATE_LIMITED" -> 429
    [] c = "INTERNAL_ERROR" -> 500
    [] c = "SERVICE_UNAVAILABLE" -> 503
    [] c = "DATABASE_ERROR" -> 500
    [] c = "EXTERNAL_SERVICE_ERROR" -> 502

\* The AppErrors of request q: the one raised and the one answered.
AppErrorsOf(q) == {e \in {q.error, q.answered} : e.isApp}

\* C14: every AppError, made by the constructor or by a factory method,
\* has the statusCode the fixed table gives for its code, and when it
\* reaches the error handler the response status is that table value.
C14_StatusFollowsTable ==
  \A r \in Slots :
    LET q == req[r]
    IN /\ \A e \in AppErrorsOf(q) : e.statusCode = ExpectedStatus(e.code)
       /\ (q.pc = "sent" /\ Ran(q, "errorHandler") /\ q.error.isApp)
            => Response(q).status = ExpectedStatus(q.error.code)

C14_Witness ==
  \E r \in Slots :
    LET q == req[r]
    IN /\ q.pc = "sent" /\ q.raisedBy = "handler"
       /\ q.error = DatabaseError("Query failed", "connection terminated")
       /\ Response(q).status = 500
       /\ Response(q).body.error.code = "DATABASE_ERROR"

\* isOperational is false exactly for the codes INTERNAL_ERROR and
\* DATABASE_ERROR.
FlagFollowsCode(e) ==
  ~e.isOperational <=> e.code \in {"INTERNAL_ERROR", "DATABASE_ERROR"}

\* C15 as stated: for every AppError in the system, made by a factory
\* method, by the constructor or by the error handler, isOperational is
\* false if and only if its code is INTERNAL_ERROR or DATABASE_ERROR.
C15_FlagFollowsCodeEverywhere ==
  \A r \in Slots : \A e \in AppErrorsOf(req[r]) : FlagFollowsCode(e)

\* C15 as amended: isOperational is false if and only if the code is
\* INTERNAL_ERROR or DATABASE_ERROR for every AppError made by a factory
\* method and for the AppError the error handler makes from a ZodError or
\* from an unanticipated exception; the AppError the error handler makes
\* from a foreign error with a numeric statusCode always has isOperational
\* true, and the constructor takes the flag from its caller.
C15_FlagFollowsCodeOfFactories ==
  \A r \in Slots :
    LET q == req[r]
    IN /\ (q.error \in FactoryErrors => FlagFollowsCode(q.error))
       /\ (Ran(q, "errorHandler") /\ ~q.error.isApp)
            => /\ q.answered.isApp
               /\ IF q.error.statusKind = "number"
                  THEN q.answered.isOperational
                  ELSE FlagFollowsCode(q.answered)

C15_Witness ==
  \E r \in Slots :
    LET q == req[r]
    IN /\ q.pc = "sent" /\ q.raisedBy = "handler"
       /\ q.error = PlainError("password=hunter2")
       /\ q.answered.code = "INTERNAL_ERROR" /\ ~q.answered.isOperational

\* C16: for an AppError the error handler writes exactly one log entry,
\* at level 'warn' when the error is operational and 'error' when it is
\* not, and sends the error's statusCode and its own code, message and
\* details unchanged.
C16_SeverityFollowsFlag ==
  \A r \in Slots :
    LET q == req[r]
    IN (q.pc = "sent" /\ Ran(q, "errorHandler") /\ q.error.isApp)
       => /\ Len(q.log) = 1
          /\ q.log[1].level = (IF q.error.isOperational THEN "warn" ELSE "error")
          /\ Response(q).status = q.error.statusCode
          /\ Response(q).body.error.code = q.error.code
          /\ Response(q).body.error.message = q.error.message
          /\ ("details" \in DOMAIN Response(q).body.error
                => Response(q).body.error.details = q.error.details)

\* Which of the cases of claim C17 the request's API key falls in.
ApiKeyCase(q) ==
  CASE KeyOf(q) = Undefined -> "missing"
    [] KeyOf(q) = "" -> "empty"
    [] Validate(KeyOf(q)) = Null -> "invalid"
    [] OTHER -> "valid"

\* Request q was rejected on an 'apiKey' route in one of the three cases
\* (the validator answered null, it did not throw) and has been answered.
RejectedApiKey(q) ==
  /\ q.pc = "sent" /\ q.auth = "apiKey" /\ routes["apiKey"] = "authenticateAPIKey"
  /\ ApiKeyCase(q) # "valid" /\ q.error # ValidatorFailure

\* C17: on an 'apiKey' route a missing header, an empty header and a key
\* the validator answers null for are each rejected 401 UNAUTHORIZED
\* without running the handler, the validator is not called in the missing
\* and empty cases, and requests of two different cases get different
\* messages.
C17_ThreeDistinctRejections ==
  /\ \A r \in Slots :
       LET q == req[r]
       IN (Reached(q) /\ q.auth = "apiKey" /\ routes["apiKey"] = "authenticateAPIKey"
           /\ ApiKeyCase(q) # "valid")
          => /\ q.handler = "none" /\ q.pc # "handler"
             /\ (ApiKeyCase(q) \in {"missing", "empty"} => q.validatorCalls = 0)
             /\ RejectedApiKey(q)
                  => /\ Response(q).status = 401
                     /\ Response(q).body.error.code = "UNAUTHORIZED"
  /\ \A r, s \in Slots :
       (RejectedApiKey(req[r]) /\ RejectedApiKey(req[s])
        /\ ApiKeyCase(req[r]) # ApiKeyCase(req[s]))
       => Response(req[r]).body.error.message # Response(req[s]).body.error.message

\* The Authorization header is missing or its scheme is not Bearer (scheme
\* names compare case-insensitively), or its token is one the verifier
\* rejects.
BadAuthorization(h) ==
  \/ h = Undef
  \/ h.scheme \notin {"Bearer", "bearer"}
  \/ h.token \notin GoodTokens

\* C18: on a 'jwt' route of an app with JWT configured, a request without
\* an Authorization header, with another scheme than Bearer or with a token
\* the verifier rejects is answered 401 UNAUTHORIZED and its handler does
\* not run; when the verifier accepts, the handler runs with request.user
\* equal to the token's claims.
C18_JwtRouteRejectsOrAttaches ==
  \A r \in Slots :
    LET q == req[r]
    IN (Reached(q) /\ q.auth = "jwt" /\ app.decorators.authenticateJWT)
       => /\ (BadAuthorization(q.headers.authorization) \/ q.dispatcher = "rejected")
               => /\ q.handler = "none" /\ q.pc # "handler"
                  /\ q.user = Undef
                  /\ (q.pc = "sent" =>
                        /\ q.dispatcher = "rejected"
                        /\ Response(q).status = 401
                        /\ Response(q).body.error.code = "UNAUTHORIZED")
          /\ (q.pc = "handler" \/ q.handler # "none")
               => /\ q.dispatcher = "ok" /\ q.jwtCalls = 1
                  /\ q.user = Claims(q.headers.authorization.token)

C18_Witness ==
  \E r \in Slots :
    LET q == req[r]
    IN /\ q.pc = "sent" /\ q.auth = "jwt" /\ app.decorators.authenticateJWT
       /\ q.headers.authorization = [scheme |-> "Basic", token |-> "dXNlcjpwYXNz"]
       /\ q.jwtCalls = 1 /\ q.handler = "none"
       /\ Response(q).status = 401
       /\ Response(q).body.error.message = "Invalid or expired token"

\* C19: on 'apiKey' and 'any' routes the API key is the value of the
\* configured header and of no other: a request (without a Bearer token, on
\* an 'any' route) whose configured header carries a key the validator
\* knows is authenticated by it and answered 200, and a request whose
\* configured header is missing or empty is answered 401 whatever key
\* another header carries.
C19_ConfiguredHeaderOnly ==
  \A r \in Slots :
    LET q == req[r]
    IN (Reached(q) /\ q.auth \in {"apiKey", "any"} /\ app.decorators.authenticateAPIKey
        /\ (q.auth = "apiKey" \/ ~StartsWithBearer(q.headers.authorization)))
       => /\ Validate(KeyOf(q)) # Null
               => /\ (q.dispatcher = "rejected" => q.error = ValidatorFailure)
                  /\ (q.handler # "none" => q.apiKey = Validate(KeyOf(q)))
                  /\ (q.pc = "sent" /\ q.raisedBy = "none" => Response(q).status = 200)
          /\ ~TruthyStr(KeyOf(q))
               => /\ q.handler = "none" /\ q.pc # "handler"
                  /\ q.validatorCalls = 0
                  /\ (q.pc = "sent" => Response(q).status = 401)

\* C20: on a 'public' route no preHandler runs: every request that reaches
\* the route goes to the handler whatever headers it carries, neither
\* request.jwtVerify nor the validator is called, and neither request.user
\* nor request.apiKey is set.
C20_PublicRouteRunsHandler ==
  \A r \in Slots :
    LET q == req[r]
    IN (q.pc # "idle" /\ q.auth = "public")
       => /\ q.jwtCalls = 0 /\ q.validatorCalls = 0
          /\ q.user = Undef /\ q.apiKey = Undef
          /\ q.dispatcher = "none" /\ ~Ran(q, "dispatcher")
          /\ q.pc # "preHandler" /\ q.raisedBy # "dispatcher"
          /\ (Reached(q) => (q.pc = "handler" \/ q.handler # "none"))

C20_Witness ==
  \E r \in Slots :
    LET q == req[r]
    IN /\ q.pc = "sent" /\ q.auth = "public" /\ BothAuthenticators
       /\ q.headers.authorization = [scheme |-> "Bearer", token |-> "bad.token.here"]
       /\ KeyOf(q) = "unknown-key"
       /\ q.handler = "ok" /\ Response(q).status = 200

\* Request q has been answered by the error handler.
Handled(q) == q.pc = "sent" /\ Ran(q, "errorHandler")

C22_RoundTrip ==
  \A r \in Slots :
    LET q == req[r]
        parsed == Parse(q.payload).error
        details == q.error.details
    IN (Handled(q) /\ q.error.isApp)
       => /\ DOMAIN parsed \subseteq {"code", "message", "details"}
          /\ parsed.code = q.error.code
          /\ parsed.message = q.error.message
          /\ ("details" \in DOMAIN parsed <=> details # Undef)
          /\ details # Undef
               => /\ DOMAIN parsed.details \subseteq DOMAIN details
                  /\ \A k \in DOMAIN details :
                       IF k \in StringKeys /\ details[k] = Undefined
                       THEN k \notin DOMAIN parsed.details
                       ELSE /\ k \in DOMAIN parsed.details
                            /\ parsed.details[k] = details[k]

C22_Witness ==
  \E r \in Slots :
    LET q == req[r]
    IN /\ Handled(q) /\ q.error = NotFound("Item", Undefined)
       /\ Len(q.payload) = 3
       /\ Parse(q.payload).error.details = [resource |-> "Item"]
       /\ Parse(q.payload).error.message = "Item not found"

\* The two message forms of claim C23.
MessageWithId(resource, id) ==
  CASE resource = "Item" /\ id = "" -> "Item with id '' not found"
    [] resource = "Item" /\ id = "1" -> "Item with id '1' not found"
    [] resource = "Item" /\ id = "123" -> "Item with id '123' not found"
    [] resource = "User" /\ id = "" -> "User with id '' not found"
    [] resource = "User" /\ id = "1" -> "User with id '1' not found"
    [] resource = "User" /\ id = "123" -> "User with id '123' not found"

MessageWithoutId(resource) ==
  CASE resource = "Item" -> "Item not found"
    [] resource = "User" -> "User not found"

\* The error of request q was made by AppError.notFound(q.args).
MadeByNotFound(q) == q.args # <<>> /\ q.raisedBy = "handler"

NotFoundShape(q) ==
  /\ q.error.isApp /\ q.error.code = "NOT_FOUND"
  /\ q.error.statusCode = 404
  /\ DOMAIN q.error.details = {"resource", "id"}
  /\ q.error.details.resource = q.args[1]
  /\ q.error.details.id = q.args[2]

\* C23 as stated: AppError.notFound(resource, id) has code NOT_FOUND and
\* details {resource, id}; its message is "<resource> with id '<id>' not
\* found" whenever an id is supplied, "<resource> not found" otherwise.
C23_NotFoundMessageWheneverId ==
  \A r \in Slots :
    LET q == req[r]
    IN MadeByNotFound(q)
       => /\ NotFoundShape(q)
          /\ q.error.message = IF q.args[2] # Undefined
                               THEN MessageWithId(q.args[1], q.args[2])
                               ELSE MessageWithoutId(q.args[1])

\* C23 as amended: ... its message is "<resource> with id '<id>' not found"
\* whenever a non-empty id is supplied, and "<resource> not found" when no
\* id or an empty id is supplied.
C23_NotFoundMessageNonEmptyId ==
  \A r \in Slots :
    LET q == req[r]
    IN MadeByNotFound(q)
       => /\ NotFoundShape(q)
          /\ q.error.message = IF q.args[2] \notin {Undefined, ""}
                               THEN MessageWithId(q.args[1], q.args[2])
                               ELSE MessageWithoutId(q.args[1])

C23_Witness ==
  \E r \in Slots :
    LET q == req[r]
    IN /\ Handled(q) /\ MadeByNotFound(q) /\ q.args = <<"User", "">>
       /\ q.error.message = "User not found"
       /\ Response(q).status = 404

\* C24: GET /health/ready answers 503 {status: 'not ready', reason:
\* 'database unavailable'} if and only if a database is configured and its
\* ping throws, and 200 {status: 'ready'} in every other case.
C24_ReadyIffDatabaseAnswers ==
  \A r \in Slots :
    LET q == req[r]
        failed == app.config.db /\ q.pinged.kind \in {"Error", "other"}
    IN (q.url = "/health/ready" /\ q.pc = "sent")
       => /\ ~Ran(q, "errorHandler") /\ Len(q.responses) = 1
          /\ (app.config.db <=> q.pinged # NoPing)
          /\ IF failed
             THEN /\ Response(q).status = 503
                  /\ Response(q).body = [status |-> "not ready",
                                         reason |-> "database unavailable"]
             ELSE /\ Response(q).status = 200
                  /\ Response(q).body = [status |-> "ready"]

C24_Witness ==
  \E r \in Slots :
    LET q == req[r]
    IN /\ q.url = "/health/ready" /\ q.pc = "sent" /\ app.config.db
       /\ q.pinged = [kind |-> "Error", message |-> "down"]
       /\ Response(q).status = 503

\* C25: a failing database ping never makes GET /health fail: no error is
\* raised and the error handler does not run; the reply is a normal one
\* whose checks.database is 'unhealthy' with the message of the Error the
\* ping threw ('Unknown error' for a thrown value that is not an Error),
\* and the aggregate status is 'unhealthy' if and only if some check is;
\* without a database the reply is 'healthy' with empty checks.
C25_HealthNeverFails ==
  \A r \in Slots :
    LET q == req[r]
    IN q.url = "/health"
       => /\ q.error = NoError /\ q.raisedBy = "none"
          /\ q.pc # "errorHandler" /\ ~Ran(q, "errorHandler")
          /\ q.pc = "sent"
               => LET body == Response(q).body
                  IN /\ Response(q).status = 200
                     /\ (body.status = "unhealthy"
                           <=> \E k \in DOMAIN body.checks :
                                 body.checks[k].status = "unhealthy")
                     /\ body.status \in {"healthy", "unhealthy"}
                     /\ (~app.config.db => body.checks = NoChecks /\ body.status = "healthy")
                     /\ app.config.db
                          => /\ DOMAIN body.checks = {"database"}
                             /\ (q.pinged.kind = "ok"
                                   => body.checks.database.status = "healthy")
                             /\ (q.pinged.kind = "Error"
                                   => /\ body.checks.database.status = "unhealthy"
                                      /\ body.checks.database.error = q.pinged.message)
                             /\ (q.pinged.kind = "other"
                                   => /\ body.checks.database.status = "unhealthy"
                                      /\ body.checks.database.error = "Unknown error")

C25_Witness ==
  \E r \in Slots :
    LET q == req[r]
    IN /\ q.url = "/health" /\ q.pc = "sent" /\ app.config.db
       /\ q.pinged = [kind |-> "Error", message |-> "connection refused"]
       /\ Response(q).status = 200
       /\ Response(q).body.status = "unhealthy"
       /\ Response(q).body.checks.database.error = "connection refused"

\* C30: once shutdown (or close) has completed, db.close() has been called
\* exactly once if a database is configured and never if none is; it is
\* not called before shutdown, and a start() that fails leaves the
\* database open.
C30_DatabaseClosedOnceAtShutdown ==
  /\ app.phase = "closed" => app.dbCloseCalls = (IF app.config.db THEN 1 ELSE 0)
  /\ app.phase # "closed" => app.dbCloseCalls = 0
  /\ app.startFailed /\ app.phase # "closed" => app.dbCloseCalls = 0

C30_Witness ==
  /\ app.config.db /\ app.startFailed
  /\ app.phase = "closed" /\ app.dbCloseCalls = 1
  /\ \E r \in Slots : req[r].url = "/health/ready" /\ req[r].pc = "sent"

\* C26: the rules of the error handler are tried in the order AppError,
\* numeric statusCode, ZodError, unknown, and only the first that matches
\* acts: an AppError is answered by rule 1 with its own status, code and
\* details; an error with a numeric statusCode, a ZodError with issues
\* included, is answered by rule 2 with that status, the code looked up from
\* it and no details; rule 3 answers only a ZodError without a numeric
\* statusCode, rule 4 the rest.  Each rule writes its own log entry.
C26_FirstMatchingRuleActs ==
  \A r \in Slots :
    LET q == req[r]
        e == q.error
        sent == Response(q).body.error
    IN Handled(q)
       => /\ Len(q.responses) = 1
          /\ CASE e.isApp ->
                    /\ q.log = <<LogEntry("error", "Application error")>>
                    /\ q.answered = e
                    /\ Response(q).status = e.statusCode
                    /\ sent.code = e.code
                    /\ (e.details # Undef => sent.details = e.details)
               [] ~e.isApp /\ e.statusKind = "number" ->
                    /\ q.log = <<LogEntry("error", "HTTP error")>>
                    /\ Response(q).status = e.statusCode
                    /\ sent.code = ExpectedCode(e.statusCode)
                    /\ "details" \notin DOMAIN sent
               [] ~e.isApp /\ e.statusKind # "number" /\ IsZodError(e) ->
                    /\ q.log = <<>>
                    /\ Response(q).status = 422
                    /\ sent.code = "VALIDATION_ERROR"
               [] OTHER ->
                    /\ q.log = <<LogEntry("error", "Unhandled error")>>
                    /\ Response(q).status = 500
                    /\ sent.code = "INTERNAL_ERROR"

C26_Witness ==
  \E r \in Slots :
    LET q == req[r]
    IN /\ Handled(q) /\ IsZodError(q.error) /\ q.error.statusKind = "number"
       /\ Response(q).status = 400
       /\ Response(q).body.error.code = "BAD_REQUEST"
       /\ q.log = <<LogEntry("error", "HTTP error")>>

\* C27: a 'jwt' route on an app without the authenticateJWT decorator has
\* no preHandler: every request that reaches the route, with or without
\* credentials, goes to the handler without any verification and gets the
\* handler's response.
C27_JwtRouteWithoutDecoratorIsOpen ==
  \A r \in Slots :
    LET q == req[r]
    IN (Reached(q) /\ q.auth = "jwt" /\ ~app.decorators.authenticateJWT)
       => /\ routes["jwt"] = "none"
          /\ q.jwtCalls = 0 /\ q.validatorCalls = 0
          /\ q.dispatcher = "none" /\ ~Ran(q, "dispatcher")
          /\ q.user = Undef
          /\ (q.pc = "handler" \/ q.handler # "none")
          /\ (q.pc = "sent" /\ q.raisedBy = "none" => Response(q) = OkResponse)

C27_Witness ==
  \E r \in Slots :
    LET q == req[r]
    IN /\ q.pc = "sent" /\ q.auth = "jwt" /\ ~app.decorators.authenticateJWT
       /\ q.headers.authorization = Undef
       /\ q.handler = "ok" /\ Response(q).status = 200

\* The request carries no API key under any header.
NoKeyAtAll(q) == \A n \in KeyHeaderNames : q.headers.keys[n] = Undefined

\* C28: on an 'any' route of an app with the API-key authenticator and no
\* JWT authenticator, a request with a 'Bearer ' header and a key the
\* validator knows is authenticated by the key (never by the verifier), and
\* the same request without a key is answered 401 'Authentication
\* required'; on an app with neither authenticator every request to the
\* route is answered 401.
C28_BearerNeedsJwtAuthenticator ==
  \A r \in Slots :
    LET q == req[r]
    IN (Reached(q) /\ q.auth = "any" /\ ~app.decorators.authenticateJWT)
       => /\ q.jwtCalls = 0 /\ q.user = Undef
          /\ (app.decorators.authenticateAPIKey
              /\ StartsWithBearer(q.headers.authorization)
              /\ Validate(KeyOf(q)) # Null)
               => /\ (q.dispatcher = "rejected" => q.error = ValidatorFailure)
                  /\ (q.handler # "none" => q.apiKey = Validate(KeyOf(q)))
                  /\ (q.pc = "sent" /\ q.raisedBy = "none" => Response(q).status = 200)
          /\ (app.decorators.authenticateAPIKey
              /\ StartsWithBearer(q.headers.authorization) /\ NoKeyAtAll(q))
               => /\ q.handler = "none" /\ q.validatorCalls = 0
                  /\ (q.pc = "sent" =>
                        /\ Response(q).status = 401
                        /\ Response(q).body.error.message = "Authentication required")
          /\ ~app.decorators.authenticateAPIKey
               => /\ q.handler = "none" /\ q.validatorCalls = 0
                  /\ (q.pc = "sent" => Response(q).status = 401)

\* C29: on an 'any' route an Authorization header that does not begin
\* with exactly 'Bearer ' is no bearer credential: the verifier is never
\* called and the request is treated as one without the header, going to
\* the API-key authenticator if it carries a key and answered 401
\* 'Authentication required' otherwise.
C29_OnlyExactBearerPrefix ==
  \A r \in Slots :
    LET q == req[r]
    IN (Reached(q) /\ q.auth = "any" /\ q.headers.authorization # Undef
        /\ ~StartsWithBearer(q.headers.authorization))
       => /\ q.jwtCalls = 0 /\ q.user = Undef
          /\ IF TruthyStr(KeyOf(q)) /\ app.decorators.authenticateAPIKey
             THEN q.dispatcher \in {"ok", "rejected"} => q.validatorCalls = 1
             ELSE /\ q.handler = "none" /\ q.validatorCalls = 0
                  /\ (q.pc = "sent" =>
                        /\ Response(q).status = 401
                        /\ Response(q).body.error.message = "Authentication required")

====
